---------------------------- MODULE Spec2Model ----------------------------
(***************************************************************************)
(* Batch Transfer Contract (contracts/batch-transfer/src/lib.rs).          *)
(*                                                                         *)
(* The contract keeps one instance-storage entry, DataKey::Admin, and      *)
(* exposes initialize, batch_transfer, admin, set_admin, upgrade and       *)
(* extend_ttl.  The host serialises invocations and runs each one inside a *)
(* frame: a panic inside the frame discards every ledger effect of the     *)
(* invocation.  The model keeps that frame explicit: `snap' is the ledger  *)
(* as it was when the invocation began, `call' its arguments and the set   *)
(* of addresses that authorised it.  An invocation ends in pc = "done",    *)
(* where its outcome (err, ret) is visible next to call and snap, and the  *)
(* host then returns to the caller (Return).                               *)
(*                                                                         *)
(* Code hashes name builds of this same program: what an arbitrary         *)
(* replacement module would do is outside the model.                       *)
(***************************************************************************)
EXTENDS Integers, Sequences, FiniteSets, TLC

\* Bounds of the model.
MaxLen == 2          \* longest recipients / amounts vector passed to batch_transfer
MaxAmount == 1       \* largest amount passed to batch_transfer (amounts are i128)
MaxTtl == 2          \* the host's max_ttl(), in ledgers
InitBalance == 2     \* tokens in circulation
RotLen == 1          \* longest batch in the specification that follows admin rotations

Addresses == {"a1", "a2", "a3"}
None == "none"
\* Code modules installed on the host, and a hash the host does not know.
Hashes == {"w0", "w1"}
MissingHash == "wx"
Amounts == -1 .. MaxAmount
\* Invocations carry the authorisation of no address or of one address.
AuthSets == {{}} \cup {{a} : a \in Addresses}

SeqsUpTo(S, n) == UNION {[1 .. k -> S] : k \in 0 .. n}

VARIABLES
    admin,      \* instance storage, DataKey::Admin: an address, None when absent
    wasm,       \* hash of the executable code in effect
    ttl,        \* ledgers the instance storage stays live
    balances,   \* the token's ledger: address -> balance
    pc,         \* "idle", "loop" (inside batch_transfer's for loop), "done"
    call,       \* the invocation in the frame: operation, arguments, authorisers
    snap,       \* the ledger when the invocation began
    i,          \* batch_transfer's loop index
    err,        \* the failure the invocation ended with, None on success
    ret,        \* the value the invocation returned, None when it has none
    xfers,      \* indices for which token_client.transfer was invoked, in order
    authLog,    \* addresses whose require_auth() the contract called, in order
    hist        \* history: has initialize succeeded, last admin accepted, and
                \* (only in SpecRotation) the admin that the last set_admin replaced

vars == <<admin, wasm, ttl, balances, pc, call, snap, i, err, ret, xfers, authLog, hist>>

ledger == <<admin, wasm, ttl, balances>>

NoCall ==
    [op |-> "none", from |-> None, recipients |-> <<>>, amounts |-> <<>>,
     arg |-> None, auths |-> {}]

NoSnap ==
    [admin |-> None, wasm |-> "w0", ttl |-> 0, balances |-> [a \in Addresses |-> 0]]

\* A snapshot that covers the contract's own entries and not the token's.
SnapshotOwnStorageOnly ==
    [admin |-> admin, wasm |-> wasm, ttl |-> ttl, balances |-> [a \in Addresses |-> 0]]

Snapshot == [admin |-> admin, wasm |-> wasm, ttl |-> ttl, balances |-> balances]

InitBalances == [a \in Addresses |-> IF a = "a1" THEN InitBalance ELSE 0]

Init ==
    /\ admin = None
    /\ wasm = "w0"
    /\ ttl = MaxTtl
    /\ balances = InitBalances
    /\ pc = "idle"
    /\ call = NoCall
    /\ snap = NoSnap
    /\ i = 0
    /\ err = None
    /\ ret = None
    /\ xfers = <<>>
    /\ authLog = <<>>
    /\ hist = [inited |-> FALSE, accepted |-> None, prev |-> None]

---------------------------------------------------------------------------
\* Host and token primitives.

\* A guard that never finds the record.
HasAdminNever == FALSE

\* env.storage().instance().has(&DataKey::Admin)
HasAdmin == admin # None

\* A write that only creates the record and never replaces it.
StoreAdminIfAbsent(a) == admin' = IF admin # None THEN admin ELSE a

\* env.storage().instance().set(&DataKey::Admin, &a)
StoreAdmin(a) == admin' = a

\* A check that accepts the signature of any address.
AuthorizedAnySigner(addr, auths) == auths # {}

\* A check that is missing.
AuthorizedAlways(addr, auths) == TRUE

\* addr.require_auth(): passes iff addr authorised this invocation.
Authorized(addr, auths) == addr \in auths

\* A failure whose effects so far are kept.
PanicKeepsEffects(e, s) ==
    /\ err' = e
    /\ ret' = None
    /\ pc' = "done"
    /\ UNCHANGED ledger

\* panic!: the invocation ends with failure e and the host restores ledger s.
Panic(e, s) ==
    /\ err' = e
    /\ ret' = None
    /\ pc' = "done"
    /\ admin' = s.admin
    /\ wasm' = s.wasm
    /\ ttl' = s.ttl
    /\ balances' = s.balances

\* The invocation ends successfully with return value r.
Finish(r) ==
    /\ err' = None
    /\ ret' = r
    /\ pc' = "done"

\* A check that lets a zero amount through.
NegativeOnly(amount) == amount < 0

\* if amount <= 0 { panic!("amount must be positive") }
NonPositive(amount) == amount <= 0

\* A check that only rejects a missing amount.
FewerAmounts(recipients, amounts) == Len(recipients) > Len(amounts)

\* if count != amounts.len() { panic!("recipients and amounts length mismatch") }
LengthMismatch(recipients, amounts) == Len(recipients) # Len(amounts)

\* token.transfer(from, to, amount) fails on a negative amount or an
\* insufficient balance, and otherwise debits from and credits to.
TransferOk(bal, from, amount) == amount >= 0 /\ bal[from] >= amount

TransferBal(bal, from, to, amount) ==
    [a \in Addresses |->
        bal[a] - (IF a = from THEN amount ELSE 0) + (IF a = to THEN amount ELSE 0)]

\* The host can install the module named by hash.
CodeInstalled(hash) == hash \in Hashes

---------------------------------------------------------------------------
\* The contract's entry points.

Enter(c) ==
    /\ pc = "idle"
    /\ call' = c
    /\ snap' = Snapshot
    /\ i' = 0
    /\ xfers' = <<>>
    /\ UNCHANGED hist

\* An initialize that wants the new admin's signature.
InitializeRequiresAuth(a, auths) ==
    /\ Enter([NoCall EXCEPT !.op = "initialize", !.arg = a, !.auths = auths])
    /\ IF HasAdmin
         THEN /\ authLog' = <<>>
              /\ Panic("AlreadyInitialized", Snapshot)
         ELSE /\ authLog' = <<a>>
              /\ IF ~Authorized(a, auths)
                   THEN Panic("AuthorizationFailure", Snapshot)
                   ELSE /\ StoreAdmin(a)
                        /\ Finish(None)
                        /\ UNCHANGED <<wasm, ttl, balances>>

Initialize(a, auths) ==
    /\ Enter([NoCall EXCEPT !.op = "initialize", !.arg = a, !.auths = auths])
    /\ authLog' = <<>>
    /\ IF HasAdmin
         THEN Panic("AlreadyInitialized", Snapshot)
         ELSE /\ StoreAdmin(a)
              /\ Finish(None)
              /\ UNCHANGED <<wasm, ttl, balances>>

\* A batch_transfer that demands the authorization before it looks at the batch.
BatchTransferAuthFirst(from, recipients, amounts, auths) ==
    /\ Enter([NoCall EXCEPT !.op = "batch_transfer", !.from = from,
                            !.recipients = recipients, !.amounts = amounts,
                            !.auths = auths])
    /\ authLog' = <<from>>
    /\ IF ~Authorized(from, auths)
         THEN Panic("AuthorizationFailure", Snapshot)
         ELSE IF Len(recipients) = 0
         THEN Panic("EmptyBatch", Snapshot)
         ELSE IF LengthMismatch(recipients, amounts)
         THEN Panic("LengthMismatch", Snapshot)
         ELSE /\ pc' = "loop"
              /\ err' = None
              /\ ret' = None
              /\ UNCHANGED ledger

\* A batch_transfer that only works once the contract is initialized.
BatchTransferNeedsAdmin(from, recipients, amounts, auths) ==
    /\ Enter([NoCall EXCEPT !.op = "batch_transfer", !.from = from,
                            !.recipients = recipients, !.amounts = amounts,
                            !.auths = auths])
    /\ IF ~HasAdmin
         THEN /\ authLog' = <<>>
              /\ Panic("NotInitialized", Snapshot)
         ELSE IF Len(recipients) = 0
         THEN /\ authLog' = <<>>
              /\ Panic("EmptyBatch", Snapshot)
         ELSE IF LengthMismatch(recipients, amounts)
         THEN /\ authLog' = <<>>
              /\ Panic("LengthMismatch", Snapshot)
         ELSE /\ authLog' = <<from>>
              /\ IF ~Authorized(from, auths)
                   THEN Panic("AuthorizationFailure", Snapshot)
                   ELSE /\ pc' = "loop"
                        /\ err' = None
                        /\ ret' = None
                        /\ UNCHANGED ledger

BatchTransfer(from, recipients, amounts, auths) ==
    /\ Enter([NoCall EXCEPT !.op = "batch_transfer", !.from = from,
                            !.recipients = recipients, !.amounts = amounts,
                            !.auths = auths])
    /\ LET count == Len(recipients) IN
       IF count = 0
         THEN /\ authLog' = <<>>
              /\ Panic("EmptyBatch", Snapshot)
         ELSE IF LengthMismatch(recipients, amounts)
         THEN /\ authLog' = <<>>
              /\ Panic("LengthMismatch", Snapshot)
         ELSE /\ authLog' = <<from>>
              /\ IF ~Authorized(from, auths)
                   THEN Panic("AuthorizationFailure", Snapshot)
                   ELSE /\ pc' = "loop"
                        /\ err' = None
                        /\ ret' = None
                        /\ UNCHANGED ledger

\* An index slip: every transfer goes to the first recipient.
FirstRecipient(k) == call.recipients[1]

\* recipients.get(i).unwrap(), amounts.get(i).unwrap(): Vec indices start at 0.
Recipient(k) == call.recipients[k + 1]

Amount(k) == call.amounts[k + 1]

\* A loop that skips a non-positive amount and goes on with the next index.
BatchStepSkips ==
    /\ pc = "loop"
    /\ LET count == Len(call.recipients)
           recipient == Recipient(i)
           amount == Amount(i)
       IN /\ IF NonPositive(amount)
               THEN UNCHANGED <<xfers, ledger>>
               ELSE /\ xfers' = Append(xfers, i)
                    /\ balances' = IF TransferOk(balances, call.from, amount)
                                     THEN TransferBal(balances, call.from, recipient, amount)
                                     ELSE balances
                    /\ UNCHANGED <<admin, wasm, ttl>>
          /\ i' = i + 1
          /\ IF i + 1 = count
               THEN Finish(None)
               ELSE /\ pc' = "loop"
                    /\ UNCHANGED <<err, ret>>
    /\ UNCHANGED <<call, snap, authLog, hist>>

\* One iteration of `for i in 0..count'; the last one ends the invocation.
BatchStep ==
    /\ pc = "loop"
    /\ LET count == Len(call.recipients)
           recipient == Recipient(i)
           amount == Amount(i)
       IN IF NonPositive(amount)
            THEN /\ Panic("NonPositiveAmount", snap)
                 /\ UNCHANGED <<xfers, i>>
            ELSE /\ xfers' = Append(xfers, i)
                 /\ IF ~TransferOk(balances, call.from, amount)
                      THEN /\ Panic("TransferFailure", snap)
                           /\ UNCHANGED i
                      ELSE /\ balances' = TransferBal(balances, call.from, recipient, amount)
                           /\ UNCHANGED <<admin, wasm, ttl>>
                           /\ i' = i + 1
                           /\ IF i + 1 = count
                                THEN Finish(None)
                                ELSE /\ pc' = "loop"
                                     /\ UNCHANGED <<err, ret>>
    /\ UNCHANGED <<call, snap, authLog, hist>>

Admin(auths) ==
    /\ Enter([NoCall EXCEPT !.op = "admin", !.auths = auths])
    /\ authLog' = <<>>
    /\ IF ~HasAdmin
         THEN Panic("NotInitialized", Snapshot)
         ELSE /\ Finish(admin)
              /\ UNCHANGED ledger

\* A set_admin that creates the record when there is none.
SetAdminCreates(new_admin, auths) ==
    /\ Enter([NoCall EXCEPT !.op = "set_admin", !.arg = new_admin, !.auths = auths])
    /\ authLog' = IF HasAdmin THEN <<admin>> ELSE <<>>
    /\ IF HasAdmin /\ ~Authorized(admin, auths)
         THEN Panic("AuthorizationFailure", Snapshot)
         ELSE /\ StoreAdmin(new_admin)
              /\ Finish(None)
              /\ UNCHANGED <<wasm, ttl, balances>>

SetAdmin(new_admin, auths) ==
    /\ Enter([NoCall EXCEPT !.op = "set_admin", !.arg = new_admin, !.auths = auths])
    /\ IF ~HasAdmin
         THEN /\ authLog' = <<>>
              /\ Panic("NotInitialized", Snapshot)
         ELSE /\ authLog' = <<admin>>
              /\ IF ~Authorized(admin, auths)
                   THEN Panic("AuthorizationFailure", Snapshot)
                   ELSE /\ StoreAdmin(new_admin)
                        /\ Finish(None)
                        /\ UNCHANGED <<wasm, ttl, balances>>

Upgrade(new_wasm_hash, auths) ==
    /\ Enter([NoCall EXCEPT !.op = "upgrade", !.arg = new_wasm_hash, !.auths = auths])
    /\ IF ~HasAdmin
         THEN /\ authLog' = <<>>
              /\ Panic("NotInitialized", Snapshot)
         ELSE /\ authLog' = <<admin>>
              /\ IF ~Authorized(admin, auths)
                   THEN Panic("AuthorizationFailure", Snapshot)
                   ELSE IF ~CodeInstalled(new_wasm_hash)
                   THEN Panic("HostFailure", Snapshot)
                   ELSE /\ wasm' = new_wasm_hash
                        /\ Finish(None)
                        /\ UNCHANGED <<admin, ttl, balances>>

\* An extend_ttl reserved to the administrator.
ExtendTtlAdminOnly(auths) ==
    /\ Enter([NoCall EXCEPT !.op = "extend_ttl", !.auths = auths])
    /\ IF ~HasAdmin
         THEN /\ authLog' = <<>>
              /\ Panic("NotInitialized", Snapshot)
         ELSE /\ authLog' = <<admin>>
              /\ IF ~Authorized(admin, auths)
                   THEN Panic("AuthorizationFailure", Snapshot)
                   ELSE /\ ttl' = MaxTtl
                        /\ Finish(None)
                        /\ UNCHANGED <<admin, wasm, balances>>

\* extend_ttl(max_ttl, max_ttl): below the threshold max_ttl, extend to max_ttl.
ExtendTtl(auths) ==
    /\ Enter([NoCall EXCEPT !.op = "extend_ttl", !.auths = auths])
    /\ authLog' = <<>>
    /\ ttl' = IF ttl < MaxTtl THEN MaxTtl ELSE ttl
    /\ Finish(None)
    /\ UNCHANGED <<admin, wasm, balances>>

\* The history after the invocation in the frame: a successful initialize or
\* set_admin is recorded, with p as the admin it replaced.
Accepted(p) ==
    IF err = None /\ call.op \in {"initialize", "set_admin"}
      THEN [inited |-> TRUE, accepted |-> call.arg, prev |-> p]
      ELSE hist

\* The host hands the outcome to the caller and drops the frame.
DropFrame(h) ==
    /\ pc = "done"
    /\ pc' = "idle"
    /\ hist' = h
    /\ call' = NoCall
    /\ snap' = NoSnap
    /\ i' = 0
    /\ err' = None
    /\ ret' = None
    /\ xfers' = <<>>
    /\ authLog' = <<>>
    /\ UNCHANGED ledger

Return == DropFrame(Accepted(None))

\* The same step, remembering the admin a successful set_admin replaced.
ReturnRemembering ==
    DropFrame(Accepted(IF call.op = "set_admin" THEN snap.admin ELSE None))

\* A ledger closes between invocations; the instance stays live.
LedgerClose ==
    /\ pc = "idle"
    /\ ttl > 1
    /\ ttl' = ttl - 1
    /\ UNCHANGED <<admin, wasm, balances, pc, call, snap, i, err, ret, xfers, authLog, hist>>

\* The host starts an invocation only when no frame is open.
Next ==
    \/ pc = "idle" /\ \E a \in Addresses, auths \in AuthSets : Initialize(a, auths)
    \/ pc = "idle" /\ \E from \in Addresses, recipients \in SeqsUpTo(Addresses, MaxLen),
                         amounts \in SeqsUpTo(Amounts, MaxLen), auths \in AuthSets :
                         BatchTransfer(from, recipients, amounts, auths)
    \/ BatchStep
    \/ pc = "idle" /\ \E auths \in AuthSets : Admin(auths)
    \/ pc = "idle" /\ \E a \in Addresses, auths \in AuthSets : SetAdmin(a, auths)
    \/ pc = "idle" /\ \E h \in Hashes \cup {MissingHash}, auths \in AuthSets : Upgrade(h, auths)
    \/ pc = "idle" /\ \E auths \in AuthSets : ExtendTtl(auths)
    \/ Return
    \/ LedgerClose

Spec == Init /\ [][Next]_vars

\* The same program with the replaced admin remembered, on batches of at
\* most RotLen recipients.
NextRotation ==
    \/ pc = "idle" /\ \E a \in Addresses, auths \in AuthSets : Initialize(a, auths)
    \/ pc = "idle" /\ \E from \in Addresses, recipients \in SeqsUpTo(Addresses, RotLen),
                         amounts \in SeqsUpTo(Amounts, RotLen), auths \in AuthSets :
                         BatchTransfer(from, recipients, amounts, auths)
    \/ BatchStep
    \/ pc = "idle" /\ \E auths \in AuthSets : Admin(auths)
    \/ pc = "idle" /\ \E a \in Addresses, auths \in AuthSets : SetAdmin(a, auths)
    \/ pc = "idle" /\ \E h \in Hashes \cup {MissingHash}, auths \in AuthSets : Upgrade(h, auths)
    \/ pc = "idle" /\ \E auths \in AuthSets : ExtendTtl(auths)
    \/ ReturnRemembering
    \/ LedgerClose

SpecRotation == Init /\ [][NextRotation]_vars

---------------------------------------------------------------------------
\* Vocabulary of the properties.

RECURSIVE SumSeq(_)
SumSeq(s) == IF s = <<>> THEN 0 ELSE Head(s) + SumSeq(Tail(s))

Range(s) == {s[k] : k \in 1 .. Len(s)}

\* What the batch pays to address a: the amounts paired with a.
RECURSIVE ReceivedUpTo(_, _)
ReceivedUpTo(a, n) ==
    IF n = 0 THEN 0
    ELSE ReceivedUpTo(a, n - 1) + (IF call.recipients[n] = a THEN call.amounts[n] ELSE 0)

Received(a) == ReceivedUpTo(a, Len(call.recipients))

BatchDone == pc = "done" /\ call.op = "batch_transfer"

BatchOk == BatchDone /\ err = None

BatchFailed == BatchDone /\ err # None

ValidShape == Len(call.recipients) > 0 /\ Len(call.recipients) = Len(call.amounts)

SourceAuthorized == call.from \in call.auths

LedgerRestored == Snapshot = snap

HasNonPositive == \E k \in 1 .. Len(call.amounts) : call.amounts[k] <= 0

\* Position in amounts (from 1) of the first amount <= 0.
FirstNonPositive ==
    CHOOSE k \in 1 .. Len(call.amounts) :
        /\ call.amounts[k] <= 0
        /\ \A j \in 1 .. k - 1 : call.amounts[j] > 0

\* The source held enough, when the call began, for every amount before the
\* first amount <= 0.
PrefixCovered ==
    snap.balances[call.from] >= SumSeq(SubSeq(call.amounts, 1, FirstNonPositive - 1))

---------------------------------------------------------------------------
\* C1: batch_transfer is all-or-nothing.  Whenever a batch_transfer call has
\* failed (empty batch, length mismatch, missing authorization, non-positive
\* amount or failed transfer at any index), every balance and the
\* administrator record (with the rest of the ledger) equal their values
\* from before the call, also when earlier transfers of the call had been
\* applied; and a state inside the loop is only ever followed by the same
\* call continuing or ending, never by another invocation.
C1_AllOrNothing ==
    [][ /\ (BatchFailed' => /\ balances' = snap'.balances
                            /\ admin' = snap'.admin
                            /\ LedgerRestored')
        /\ (pc = "loop" => /\ pc' \in {"loop", "done"}
                           /\ call' = call
                           /\ snap' = snap)
        /\ (pc' = "loop" => call'.op = "batch_transfer") ]_vars

\* A call fails at its second transfer after its first one was applied.
C1_Witness ==
    /\ BatchFailed
    /\ err = "TransferFailure"
    /\ xfers = <<0, 1>>

\* C2 (as amended): after a successful batch_transfer of a valid batch the
\* balance of every account a has changed by the sum of the amounts paired
\* with a, less sum(amounts) when a is the source; so when the source is no
\* recipient it loses exactly sum(amounts), a recipient listed once (and not
\* the source) gains exactly its paired amount, and every account that is
\* neither source nor recipient is unchanged.
C2_NetEffect ==
    BatchOk =>
        /\ ValidShape
        /\ \A k \in 1 .. Len(call.amounts) : call.amounts[k] > 0
        /\ \A a \in Addresses :
              balances[a] = snap.balances[a] + Received(a)
                            - (IF a = call.from THEN SumSeq(call.amounts) ELSE 0)
        /\ \A a \in Addresses \ (Range(call.recipients) \cup {call.from}) :
              balances[a] = snap.balances[a]

\* A successful batch that lists the source as a recipient and repeats it.
C2_Witness ==
    /\ BatchOk
    /\ Len(call.recipients) = 2
    /\ call.from \in Range(call.recipients)
    /\ call.recipients[1] # call.recipients[2]

\* C2 as stated: the source loses sum(amounts) and each recipient gains its
\* paired amount, whatever the batch repeats.
C2_AsStated ==
    BatchOk =>
        /\ balances[call.from] = snap.balances[call.from] - SumSeq(call.amounts)
        /\ \A k \in 1 .. Len(call.recipients) :
              balances[call.recipients[k]]
                  = snap.balances[call.recipients[k]] + call.amounts[k]
        /\ \A a \in Addresses \ (Range(call.recipients) \cup {call.from}) :
              balances[a] = snap.balances[a]

C4_LengthMismatch ==
    (BatchDone /\ Len(call.recipients) # Len(call.amounts)) =>
        /\ balances = snap.balances
        /\ xfers = <<>>
        /\ err = IF Len(call.recipients) = 0 THEN "EmptyBatch" ELSE "LengthMismatch"

\* A call with more amounts than recipients is rejected with LengthMismatch.
C4_Witness ==
    /\ BatchDone
    /\ err = "LengthMismatch"
    /\ Len(call.recipients) = 1
    /\ Len(call.amounts) = 2

\* C4 as stated: every length mismatch is reported as LengthMismatch.
C4_AsStated ==
    (BatchDone /\ Len(call.recipients) # Len(call.amounts)) =>
        /\ balances = snap.balances
        /\ err = "LengthMismatch"

\* C5: once initialize has succeeded, every later initialize call fails with
\* AlreadyInitialized whatever its argument, in every later state, and leaves
\* the administrator record (and the rest of the ledger) as it was.
C5_InitializeOnce ==
    (pc = "done" /\ call.op = "initialize" /\ hist.inited) =>
        /\ err = "AlreadyInitialized"
        /\ admin = snap.admin
        /\ LedgerRestored

\* The current admin's own identifier is refused after a rotation and an
\* upgrade.
C5_Witness ==
    /\ pc = "done"
    /\ call.op = "initialize"
    /\ hist.inited
    /\ err = "AlreadyInitialized"
    /\ call.arg = admin
    /\ wasm = "w1"

\* C6: set_admin invoked without the authorization of the current
\* administrator fails (AuthorizationFailure, or NotInitialized when there is
\* no administrator) and leaves the administrator record unchanged.
C6_SetAdminNeedsAdmin ==
    (pc = "done" /\ call.op = "set_admin" /\ snap.admin \notin call.auths) =>
        /\ err = IF snap.admin = None THEN "NotInitialized" ELSE "AuthorizationFailure"
        /\ admin = snap.admin
        /\ LedgerRestored

\* The proposed new admin, not the current one, authorized the call.
C6_Witness ==
    /\ pc = "done"
    /\ call.op = "set_admin"
    /\ snap.admin \in Addresses
    /\ call.arg # snap.admin
    /\ call.auths = {call.arg}
    /\ err = "AuthorizationFailure"

\* C7: admin() returns the argument of the most recent successful set_admin,
\* or of the successful initialize when no set_admin has succeeded; it fails
\* with NotInitialized exactly when initialize has never succeeded; it
\* demands no authorization and changes no state.
C7_AdminReadsLastAccepted ==
    (pc = "done" /\ call.op = "admin") =>
        /\ hist.inited => (err = None /\ ret = hist.accepted)
        /\ ~hist.inited => (err = "NotInitialized" /\ ret = None)
        /\ authLog = <<>>
        /\ LedgerRestored

\* admin() answers a caller that authorized nothing.
C7_Witness ==
    /\ pc = "done"
    /\ call.op = "admin"
    /\ call.auths = {}
    /\ ret \in Addresses
    /\ ret = hist.accepted

\* C8: once the administrator record exists it exists in every later state
\* and holds one account identifier; a step that changes its value is a
\* set_admin call authorized by the value it held before the step and stores
\* that call's argument; and a step that creates it is an initialize call.
C8_AdminRecord ==
    [][ /\ (admin \in Addresses => admin' \in Addresses)
        /\ (hist.inited => admin \in Addresses)
        /\ ((admin \in Addresses /\ admin' # admin)
                => /\ pc = "idle"
                   /\ call'.op = "set_admin"
                   /\ admin \in call'.auths
                   /\ admin' = call'.arg
                   /\ err' = None)
        /\ ((admin = None /\ admin' # admin)
                => /\ pc = "idle"
                   /\ call'.op = "initialize"
                   /\ admin' = call'.arg) ]_vars

\* The record was replaced by a set_admin call.
C8_Witness ==
    /\ pc = "done"
    /\ call.op = "set_admin"
    /\ snap.admin \in Addresses
    /\ admin # snap.admin

\* C9 (as amended): batch_transfer demands the source's authorization at most
\* once per call, whatever the number of recipients: exactly once in a call
\* whose batch is non-empty and equal-length, and not at all in a call
\* rejected as EmptyBatch or LengthMismatch; it demands no other address's
\* authorization; and a call not authorized by the source invokes no
\* transfer and moves no funds: only an account that authorized the call is
\* ever debited.
C9_SingleAuthorization ==
    (call.op = "batch_transfer") =>
        /\ authLog = IF ValidShape THEN <<call.from>> ELSE <<>>
        /\ ~SourceAuthorized => (xfers = <<>> /\ balances = snap.balances /\ pc = "done"
                                 /\ err # None)
        /\ \A a \in Addresses : balances[a] < snap.balances[a] => a \in call.auths

\* One authorization covered two applied transfers.
C9_Witness ==
    /\ BatchOk
    /\ authLog = <<call.from>>
    /\ xfers = <<0, 1>>

\* C9 as stated: every batch_transfer call demands the source's
\* authorization exactly once.
C9_AsStated ==
    BatchDone =>
        /\ authLog = <<call.from>>
        /\ ~SourceAuthorized => balances = snap.balances

\* C10: the executable code changes only in an upgrade call made while an
\* administrator record exists and authorized by the current administrator,
\* and then becomes the module named by new_code_hash; upgrade before
\* initialization fails with NotInitialized, upgrade not authorized by the
\* current admin fails with AuthorizationFailure, and a failed upgrade leaves
\* the installed code unchanged.
C10_Upgrade ==
    [][ /\ (wasm' # wasm
              => /\ pc = "idle"
                 /\ call'.op = "upgrade"
                 /\ admin \in Addresses
                 /\ admin \in call'.auths
                 /\ err' = None
                 /\ wasm' = call'.arg)
        /\ ((pc = "idle" /\ call'.op = "upgrade")
              => /\ admin = None => err' = "NotInitialized"
                 /\ (admin # None /\ admin \notin call'.auths)
                       => err' = "AuthorizationFailure"
                 /\ err' # None => wasm' = wasm
                 /\ err' = None => wasm' = call'.arg) ]_vars

\* An authorized upgrade replaced the code.
C10_Witness ==
    /\ pc = "done"
    /\ call.op = "upgrade"
    /\ err = None
    /\ wasm = call.arg
    /\ wasm # snap.wasm

\* C11: initialize carries no authorization requirement.  Called while no
\* administrator record exists, initialize(a) succeeds for every identifier
\* a and every caller, also when no account authorized the call; it demands
\* no authorization, and afterwards the administrator record equals a.
C11_InitializeUnauthenticated ==
    (pc = "done" /\ call.op = "initialize" /\ snap.admin = None) =>
        /\ err = None
        /\ authLog = <<>>
        /\ admin = call.arg
        /\ wasm = snap.wasm /\ ttl = snap.ttl /\ balances = snap.balances

\* initialize succeeded in a call that nobody authorized.
C11_Witness ==
    /\ pc = "done"
    /\ call.op = "initialize"
    /\ snap.admin = None
    /\ call.auths = {}
    /\ err = None
    /\ admin = call.arg

\* C12: extend_ttl requires no authorization and no initialization.  It can
\* be invoked in every state in which the host accepts an invocation, by a
\* caller nobody authorized; it always succeeds, demands no authorization,
\* leaves the administrator record, the installed code and all balances
\* unchanged, and sets the lifetime counter to the platform maximum.
C12_ExtendTtl ==
    /\ pc = "idle" => ENABLED ExtendTtl({})
    /\ (pc = "done" /\ call.op = "extend_ttl") =>
          /\ err = None
          /\ authLog = <<>>
          /\ admin = snap.admin
          /\ wasm = snap.wasm
          /\ balances = snap.balances
          /\ ttl = MaxTtl

\* Before initialize, an unauthorized extend_ttl raised a run-down counter
\* to the maximum.
C12_Witness ==
    /\ pc = "done"
    /\ call.op = "extend_ttl"
    /\ call.auths = {}
    /\ snap.admin = None
    /\ snap.ttl < MaxTtl
    /\ ttl = MaxTtl
    /\ err = None

\* C13: admin rotation takes effect immediately and without confirmation by
\* the new admin.  A successful set_admin(n) demands only the authorization
\* of the admin p it replaces and stores n at once; and when n # p, every
\* set_admin or upgrade that follows it (until the next rotation), the very
\* next one included, fails with AuthorizationFailure when p authorized it
\* and n did not, and succeeds when n authorized it (for upgrade: given the
\* host knows the code hash).
Rotated == hist.prev \in Addresses /\ hist.prev # hist.accepted

C13_RotationImmediate ==
    /\ (pc = "done" /\ call.op = "set_admin" /\ err = None) =>
          /\ admin = call.arg
          /\ authLog = <<snap.admin>>
    /\ (pc = "done" /\ call.op \in {"set_admin", "upgrade"} /\ Rotated) =>
          /\ (hist.prev \in call.auths /\ hist.accepted \notin call.auths)
                => (err = "AuthorizationFailure" /\ LedgerRestored)
          /\ hist.accepted \in call.auths
                => IF call.op = "upgrade" /\ ~CodeInstalled(call.arg)
                     THEN err = "HostFailure" /\ LedgerRestored
                     ELSE /\ err = None
                          /\ call.op = "set_admin" => admin = call.arg
                          /\ call.op = "upgrade" => wasm = call.arg

\* Right after a rotation the replaced admin's upgrade is refused.
C13_Witness ==
    /\ pc = "done"
    /\ call.op = "upgrade"
    /\ Rotated
    /\ call.auths = {hist.prev}
    /\ err = "AuthorizationFailure"
    /\ snap.admin = hist.accepted

\* C14: within one batch_transfer call the transfer capability is invoked
\* for the indices 0, 1, 2, ... in this order, at most once per index; a
\* call that fails at index i on a non-positive amount has invoked it for
\* 0 .. i-1 only, one that fails at index i on the transfer itself for
\* 0 .. i only, so never for an index j > i; a call rejected before the loop
\* never invokes it, and a successful call invokes it once for every index.
Indices(n) == [k \in 1 .. n |-> k - 1]

C14_TransferOrder ==
    (call.op = "batch_transfer") =>
        /\ xfers = Indices(Len(xfers))
        /\ Len(xfers) <= Len(call.recipients)
        /\ pc = "loop" => (Len(xfers) = i /\ i < Len(call.recipients))
        /\ BatchOk => xfers = Indices(Len(call.recipients))
        /\ (BatchDone /\ err = "NonPositiveAmount")
              => (xfers = Indices(i) /\ call.amounts[i + 1] <= 0)
        /\ (BatchDone /\ err = "TransferFailure")
              => (xfers = Indices(i + 1) /\ call.amounts[i + 1] > 0)
        /\ (BatchDone /\ err \in {"EmptyBatch", "LengthMismatch", "AuthorizationFailure"})
              => xfers = <<>>

\* The call failed at index 0 and the transferable index 1 was never invoked.
C14_Witness ==
    /\ BatchDone
    /\ err = "NonPositiveAmount"
    /\ i = 0
    /\ xfers = <<>>
    /\ Len(call.amounts) = 2
    /\ call.amounts[2] > 0
    /\ snap.balances[call.from] >= call.amounts[2]

\* The first failure of the loop from position k (from 1) on, when the
\* source holds srcBal: None when every remaining transfer goes through.
RECURSIVE LoopFailure(_, _)
LoopFailure(k, srcBal) ==
    IF k > Len(call.recipients) THEN None
    ELSE IF call.amounts[k] <= 0 THEN "NonPositiveAmount"
    ELSE IF srcBal < call.amounts[k] THEN "TransferFailure"
    ELSE LoopFailure(k + 1, IF call.recipients[k] = call.from
                              THEN srcBal
                              ELSE srcBal - call.amounts[k])

\* The earliest failing condition of the call in the frame, in the order
\* EmptyBatch, LengthMismatch, AuthorizationFailure, then index by index
\* NonPositiveAmount before TransferFailure; None when there is none.
FirstFailure ==
    IF Len(call.recipients) = 0 THEN "EmptyBatch"
    ELSE IF Len(call.recipients) # Len(call.amounts) THEN "LengthMismatch"
    ELSE IF ~SourceAuthorized THEN "AuthorizationFailure"
    ELSE LoopFailure(1, snap.balances[call.from])

\* C15: batch_transfer reports the first failing condition in the order
\* EmptyBatch, LengthMismatch, AuthorizationFailure, then for each index in
\* turn NonPositiveAmount and TransferFailure; EmptyBatch and LengthMismatch
\* are decided before the source's authorization is demanded, so a call
\* nobody authorized still gets them.
C15_FirstFailure ==
    BatchDone =>
        /\ err = FirstFailure
        /\ err \in {"EmptyBatch", "LengthMismatch"} => authLog = <<>>
        /\ err \in {"AuthorizationFailure", "NonPositiveAmount", "TransferFailure"}
              => authLog = <<call.from>>

\* Empty recipients with a non-positive amount, authorized by nobody:
\* EmptyBatch is reported.
C15_Witness ==
    /\ BatchDone
    /\ call.recipients = <<>>
    /\ Len(call.amounts) > 0
    /\ HasNonPositive
    /\ call.auths = {}
    /\ err = "EmptyBatch"

\* C16: before initialize has succeeded, set_admin and upgrade fail with
\* NotInitialized whoever authorized them, without demanding any
\* authorization; the call leaves the service uninitialized and the code
\* unchanged, and between invocations an uninitialized service has no
\* record, so that initialize can still succeed.
C16_NotInitialized ==
    /\ (pc = "done" /\ call.op \in {"set_admin", "upgrade"} /\ ~hist.inited) =>
          /\ err = "NotInitialized"
          /\ authLog = <<>>
          /\ admin = None
          /\ wasm = snap.wasm
          /\ LedgerRestored
    /\ (pc = "idle" /\ ~hist.inited) =>
          /\ admin = None
          /\ \A a \in Addresses : ENABLED Initialize(a, {})

\* set_admin authorized by the proposed admin, on an uninitialized service.
C16_Witness ==
    /\ pc = "done"
    /\ call.op = "set_admin"
    /\ ~hist.inited
    /\ call.auths = {call.arg}
    /\ err = "NotInitialized"
    /\ admin = None

\* C17: batch_transfer is independent of the administrator record.  Every
\* batch_transfer call, successful or failed, leaves the record (present or
\* absent) and the installed code unchanged and demands no authorization
\* but the source's; and whether it succeeds is decided by its arguments,
\* its authorizers and the balances alone: a valid, source-authorized batch
\* that the balances cover succeeds, initialized or not.
C17_BatchIgnoresAdmin ==
    (call.op = "batch_transfer") =>
        /\ admin = snap.admin
        /\ wasm = snap.wasm
        /\ Range(authLog) \subseteq {call.from}
        /\ pc = "done" =>
              /\ err # "NotInitialized"
              /\ (err = None) <=>
                    /\ ValidShape
                    /\ SourceAuthorized
                    /\ LoopFailure(1, snap.balances[call.from]) = None

\* A two-recipient batch succeeded on a service that was never initialized.
C17_Witness ==
    /\ BatchOk
    /\ admin = None
    /\ ~hist.inited
    /\ Len(call.recipients) = 2

RECURSIVE SumOver(_, _)
SumOver(bal, S) ==
    IF S = {} THEN 0
    ELSE LET a == CHOOSE x \in S : TRUE IN bal[a] + SumOver(bal, S \ {a})

\* C18: conservation.  With a transfer capability that debits the sender and
\* credits the receiver by the same amount and fails on insufficient
\* balance, the sum of all balances is the same in every reachable state
\* (inside the loop too), no balance is ever negative, and initialize, admin,
\* set_admin, upgrade and extend_ttl change no balance.
C18_Conservation ==
    /\ SumOver(balances, Addresses) = SumOver(InitBalances, Addresses)
    /\ \A a \in Addresses : balances[a] >= 0
    /\ (pc = "done" /\ call.op # "batch_transfer") => balances = snap.balances

\* Inside the loop, after a transfer that emptied the source's account.
C18_Witness ==
    /\ pc = "loop"
    /\ i = 1
    /\ balances # snap.balances
    /\ balances # InitBalances
    /\ balances[call.from] = 0

=============================================================================
